---- MODULE Spec2Model ----
(***************************************************************************)
(* Password hashing and verification of packages/hypermodel/src/utils.ts:  *)
(* hashPassword (with its legacy variant parsePassword) and verifyPassword. *)
(* Strings are sequences of one-character strings, buffers are sequences   *)
(* of bytes (0..255).  Every asynchronous call is a slot of `calls` whose   *)
(* pc says which completion (randomBytes, pbkdf2) it is waiting for.        *)
(***************************************************************************)
EXTENDS Integers, Sequences, FiniteSets, TLC

(* ---------------------------------------------------------------------- *)
(* Bounds of the model                                                     *)
(* ---------------------------------------------------------------------- *)
MaxCalls == 2
NumSalts == 2

(* ---------------------------------------------------------------------- *)
(* Characters and strings                                                  *)
(* ---------------------------------------------------------------------- *)
AsciiTable ==
  <<" ", "!", "dquote", "#", "$", "%", "&", "'", "(", ")", "*", "+", ",", "-", ".", "/",
    "0", "1", "2", "3", "4", "5", "6", "7", "8", "9", ":", ";", "<", "=", ">", "?",
    "@", "A", "B", "C", "D", "E", "F", "G", "H", "I", "J", "K", "L", "M", "N", "O",
    "P", "Q", "R", "S", "T", "U", "V", "W", "X", "Y", "Z", "[", "backslash", "]", "^", "_",
    "backtick", "a", "b", "c", "d", "e", "f", "g", "h", "i", "j", "k", "l", "m", "n", "o",
    "p", "q", "r", "s", "t", "u", "v", "w", "x", "y", "z", "{", "|", "}", "~">>

(* The position of each character of a table, as a lookup function.       *)
Positions(table) ==
  [c \in {table[k] : k \in 1..Len(table)} |-> CHOOSE k \in 1..Len(table) : table[k] = c]

AsciiPosition == Positions(AsciiTable)

CharCode(c) ==
  IF c = "\t" THEN 9
  ELSE IF c = "\n" THEN 10
  ELSE IF c = "\r" THEN 13
  ELSE 31 + AsciiPosition[c]

Utf8(s) == [k \in 1..Len(s) |-> CharCode(s[k])]

Whitespace == {" ", "\t", "\n", "\r"}

Trim(s) ==
  IF \A k \in 1..Len(s) : s[k] \in Whitespace
  THEN <<>>
  ELSE LET first == CHOOSE k \in 1..Len(s) :
                      s[k] \notin Whitespace /\ \A j \in 1..(k - 1) : s[j] \in Whitespace
           last  == CHOOSE k \in 1..Len(s) :
                      s[k] \notin Whitespace /\ \A j \in (k + 1)..Len(s) : s[j] \in Whitespace
       IN  SubSeq(s, first, last)

Digits == <<"0", "1", "2", "3", "4", "5", "6", "7", "8", "9">>

DigitPosition == Positions(Digits)

IsDigit(c) == c \in DOMAIN DigitPosition

RECURSIVE NumberToString(_)
NumberToString(n) ==
  IF n < 10 THEN <<Digits[n + 1]>>
  ELSE NumberToString(n \div 10) \o <<Digits[(n % 10) + 1]>>

RECURSIVE DigitsValue(_)
DigitsValue(s) ==
  IF s = <<>> THEN 0
  ELSE 10 * DigitsValue(SubSeq(s, 1, Len(s) - 1)) + (DigitPosition[s[Len(s)]] - 1)

NaN == [nan |-> TRUE, value |-> 0]

ParseInt(s) ==
  LET n      == Len(s)
      start  == IF \A k \in 1..n : s[k] \in Whitespace THEN n + 1
                ELSE CHOOSE k \in 1..n :
                       s[k] \notin Whitespace /\ \A j \in 1..(k - 1) : s[j] \in Whitespace
      signed == start <= n /\ s[start] \in {"+", "-"}
      from   == IF signed THEN start + 1 ELSE start
      to     == IF \A k \in from..n : IsDigit(s[k]) THEN n
                ELSE (CHOOSE k \in from..n :
                        ~IsDigit(s[k]) /\ \A j \in from..(k - 1) : IsDigit(s[j])) - 1
      mag    == DigitsValue(SubSeq(s, from, to))
  IN  IF to < from THEN NaN
      ELSE [nan |-> FALSE,
            value |-> IF signed /\ s[start] = "-" THEN 0 - mag ELSE mag]

Undefined == <<"undefined">>

RECURSIVE Split(_, _)
Split(s, sep) ==
  IF \A k \in 1..Len(s) : s[k] # sep
  THEN <<s>>
  ELSE LET at == CHOOSE k \in 1..Len(s) : s[k] = sep /\ \A j \in 1..(k - 1) : s[j] # sep
       IN  <<SubSeq(s, 1, at - 1)>> \o Split(SubSeq(s, at + 1, Len(s)), sep)

Destructure(fields, k) == IF k <= Len(fields) THEN fields[k] ELSE Undefined

(* ---------------------------------------------------------------------- *)
(* Buffer encodings                                                        *)
(* ---------------------------------------------------------------------- *)
HexDigits == <<"0", "1", "2", "3", "4", "5", "6", "7", "8", "9",
               "a", "b", "c", "d", "e", "f">>

HexUpper == <<"A", "B", "C", "D", "E", "F">>

HexPosition == Positions(HexDigits)

HexUpperPosition == Positions(HexUpper)

Unhex(c) ==
  IF c \in DOMAIN HexPosition THEN HexPosition[c] - 1
  ELSE IF c \in DOMAIN HexUpperPosition THEN HexUpperPosition[c] + 9
  ELSE -1

ToStringHex(buf) ==
  [k \in 1..(2 * Len(buf)) |->
     LET b == buf[(k + 1) \div 2]
     IN  IF k % 2 = 1 THEN HexDigits[(b \div 16) + 1] ELSE HexDigits[(b % 16) + 1]]

BufferFromHex(s) ==
  LET n     == Len(s) \div 2
      ok(k) == Unhex(s[2 * k - 1]) >= 0 /\ Unhex(s[2 * k]) >= 0
      m     == IF \A k \in 1..n : ok(k) THEN n
               ELSE (CHOOSE k \in 1..n : ~ok(k) /\ \A j \in 1..(k - 1) : ok(j)) - 1
  IN  [k \in 1..m |-> 16 * Unhex(s[2 * k - 1]) + Unhex(s[2 * k])]

Base64Alphabet ==
  <<"A", "B", "C", "D", "E", "F", "G", "H", "I", "J", "K", "L", "M", "N", "O", "P",
    "Q", "R", "S", "T", "U", "V", "W", "X", "Y", "Z", "a", "b", "c", "d", "e", "f",
    "g", "h", "i", "j", "k", "l", "m", "n", "o", "p", "q", "r", "s", "t", "u", "v",
    "w", "x", "y", "z", "0", "1", "2", "3", "4", "5", "6", "7", "8", "9", "+", "/">>

Base64Position == Positions(Base64Alphabet)

Unbase64(c) ==
  IF c \in DOMAIN Base64Position THEN Base64Position[c] - 1
  ELSE IF c = "-" THEN 62
  ELSE IF c = "_" THEN 63
  ELSE -1

ToStringBase64(buf) ==
  LET n       == Len(buf)
      byte(k) == IF k <= n THEN buf[k] ELSE 0
      ch(g, j) ==
        LET b1 == byte(3 * g - 2)
            b2 == byte(3 * g - 1)
            b3 == byte(3 * g)
        IN  CASE j = 1 -> Base64Alphabet[(b1 \div 4) + 1]
              [] j = 2 -> Base64Alphabet[(b1 % 4) * 16 + (b2 \div 16) + 1]
              [] j = 3 -> IF 3 * g - 1 > n THEN "="
                          ELSE Base64Alphabet[(b2 % 16) * 4 + (b3 \div 64) + 1]
              [] j = 4 -> IF 3 * g > n THEN "="
                          ELSE Base64Alphabet[(b3 % 64) + 1]
  IN  [k \in 1..(4 * ((n + 2) \div 3)) |-> ch((k + 3) \div 4, ((k - 1) % 4) + 1)]

BufferFromBase64(s) ==
  LET stop  == IF \A k \in 1..Len(s) : s[k] # "=" THEN Len(s)
               ELSE (CHOOSE k \in 1..Len(s) :
                       s[k] = "=" /\ \A j \in 1..(k - 1) : s[j] # "=") - 1
      legal == SelectSeq(SubSeq(s, 1, stop), LAMBDA c : Unbase64(c) >= 0)
      v(k)  == Unbase64(legal[k])
      m     == (6 * Len(legal)) \div 8
  IN  [k \in 1..m |->
         LET q == 4 * ((k - 1) \div 3)
             r == (k - 1) % 3
         IN  CASE r = 0 -> (v(q + 1) % 64) * 4 + (v(q + 2) \div 16)
               [] r = 1 -> (v(q + 2) % 16) * 16 + (v(q + 3) \div 4)
               [] r = 2 -> (v(q + 3) % 4) * 64 + v(q + 4)]

(* ---------------------------------------------------------------------- *)
(* The crypto primitives of node: pbkdf2 and timingSafeEqual               *)
(* ---------------------------------------------------------------------- *)
RECURSIVE Absorb(_, _)
Absorb(acc, bytes) ==
  IF bytes = <<>> THEN acc
  ELSE Absorb((acc * 31 + Head(bytes) + 1) % 65521, Tail(bytes))

(* A deterministic stand-in for PBKDF2-HMAC-SHA256: byte j of the key      *)
(* depends on the password, the salt and the iteration count, and, as in   *)
(* PBKDF2, not on the requested key length.                                *)
Pbkdf2(password, salt, iterations, keylen) ==
  LET seed == (Absorb(Absorb(7, password), salt) * 13 + iterations) % 65521
  IN  [j \in 1..keylen |-> (seed + (seed \div 256) * j + 7 * j * j) % 256]

MaxInt32 == 2147483647

(* Argument validation of crypto.pbkdf2, done before the work is queued:   *)
(* iterations is an int32 of at least 1, keylen an int32 of at least 0.    *)
Pbkdf2ArgsValid(iterations, keylen) ==
  /\ iterations >= 1
  /\ iterations <= MaxInt32
  /\ keylen >= 0
  /\ keylen <= MaxInt32

NoResult == [kind |-> "none", str |-> <<>>, bool |-> FALSE, error |-> ""]

Resolved(s) == [kind |-> "string", str |-> s, bool |-> FALSE, error |-> ""]

ResolvedBool(b) == [kind |-> "boolean", str |-> <<>>, bool |-> b, error |-> ""]

Rejected(msg) == [kind |-> "error", str |-> <<>>, bool |-> FALSE, error |-> msg]

(* A comparison that looks at the lengths only.                            *)
TimingSafeEqualLengthOnly(a, b) ==
  IF Len(a) # Len(b)
  THEN Rejected("Input buffers must have the same byte length")
  ELSE ResolvedBool(TRUE)

TimingSafeEqual(a, b) ==
  IF Len(a) # Len(b)
  THEN Rejected("Input buffers must have the same byte length")
  ELSE ResolvedBool(\A k \in 1..Len(a) : a[k] = b[k])

(* ---------------------------------------------------------------------- *)
(* Inputs                                                                  *)
(* ---------------------------------------------------------------------- *)
SaltLen == 16

SaltBytes(k) == [i \in 1..SaltLen |-> (251 * k + 59 * i * k + i * i) % 256]

Salts == {SaltBytes(k) : k \in 1..NumSalts}

Passwords ==
  { <<>>,
    <<"a", "b">>,
    <<" ", " ", " ", " ", " ", " ">>,
    <<" ", "a", "b", "c", "d", "e">>,
    <<"a", "b", "c", "d", "e", "f">>,
    <<"a", "b", "c", "d", "e", "g">>,
    <<"\t", "a", "b", "c", "d", "e", "f", " ">> }

ConcurrentPasswords ==
  { <<"a", "b">>,
    <<"a", "b", "c", "d", "e", "f">> }

Algorithm == <<"p", "b", "k", "d", "f", "2", "_", "s", "h", "a", "2", "5", "6">>

Dollar == <<"$">>

Format(algorithm, iterations, salt, derivedKey) ==
  algorithm \o Dollar \o iterations \o Dollar \o salt \o Dollar \o derivedKey

(* ---------------------------------------------------------------------- *)
(* State                                                                   *)
(* ---------------------------------------------------------------------- *)
VARIABLES calls, stored

vars == <<calls, stored>>

Slots == 1..MaxCalls

Idle ==
  [op |-> "idle", pc |-> "idle", plainTextPassword |-> <<>>, passwordHash |-> <<>>,
   legacy |-> FALSE, drawn |-> <<>>, salt |-> <<>>, kdfSalt |-> <<>>,
   iterations |-> 0, keylen |-> 0, derivedKeyBuffer |-> <<>>,
   randomBytesCalls |-> 0, pbkdf2Calls |-> 0, result |-> NoResult]

NothingStored ==
  [present |-> FALSE, plainTextPassword |-> <<>>, legacy |-> FALSE,
   saltBuffer |-> <<>>, passwordHash |-> <<>>]

Init ==
  /\ calls = [i \in Slots |-> Idle]
  /\ stored = NothingStored

(* ---------------------------------------------------------------------- *)
(* hashPassword and parsePassword, one step per await                      *)
(* ---------------------------------------------------------------------- *)
MinPasswordLength == 6

LegacyIterations == 100000

LegacyKeylen == 64

CurrentIterations == 150000

CurrentKeylen == 32

(* The length check applied to the untrimmed plaintext.                    *)
HashPasswordStartUntrimmed(plainTextPassword, legacy) ==
  LET call == [Idle EXCEPT !.op = "hashPassword",
                           !.plainTextPassword = plainTextPassword,
                           !.legacy = legacy]
  IN  IF Len(plainTextPassword) < MinPasswordLength
      THEN [call EXCEPT !.pc = "rejected",
                        !.result = Rejected("Password invalid: too short")]
      ELSE [call EXCEPT !.pc = "randomBytes", !.randomBytesCalls = 1]

HashPasswordStart(plainTextPassword, legacy) ==
  LET call == [Idle EXCEPT !.op = "hashPassword",
                           !.plainTextPassword = plainTextPassword,
                           !.legacy = legacy]
  IN  IF Len(Trim(plainTextPassword)) < MinPasswordLength
      THEN [call EXCEPT !.pc = "rejected",
                        !.result = Rejected("Password invalid: too short")]
      ELSE [call EXCEPT !.pc = "randomBytes", !.randomBytesCalls = 1]

(* parsePassword handing the raw salt bytes to pbkdf2.                     *)
ParsePasswordSaltedRaw(call, bytes) ==
  [call EXCEPT !.pc = "pbkdf2", !.drawn = bytes, !.salt = ToStringHex(bytes),
               !.kdfSalt = bytes, !.iterations = LegacyIterations,
               !.keylen = LegacyKeylen, !.pbkdf2Calls = @ + 1]

(* parsePassword after randomBytes(16): the salt is kept as a hex string   *)
(* and that string is what pbkdf2 receives.                                *)
ParsePasswordSalted(call, bytes) ==
  LET salt == ToStringHex(bytes)
  IN  [call EXCEPT !.pc = "pbkdf2", !.drawn = bytes, !.salt = salt,
                   !.kdfSalt = Utf8(salt), !.iterations = LegacyIterations,
                   !.keylen = LegacyKeylen, !.pbkdf2Calls = @ + 1]

(* hashPassword handing the hex text of the salt to pbkdf2.                *)
HashPasswordSaltedAsHex(call, bytes) ==
  [call EXCEPT !.pc = "pbkdf2", !.drawn = bytes, !.kdfSalt = Utf8(ToStringHex(bytes)),
               !.iterations = CurrentIterations, !.keylen = CurrentKeylen,
               !.pbkdf2Calls = @ + 1]

(* hashPassword after randomBytes(16): pbkdf2 receives the raw buffer.     *)
HashPasswordSalted(call, bytes) ==
  [call EXCEPT !.pc = "pbkdf2", !.drawn = bytes, !.kdfSalt = bytes,
               !.iterations = CurrentIterations, !.keylen = CurrentKeylen,
               !.pbkdf2Calls = @ + 1]

ParsePasswordDerived(call, derivedKey) ==
  [call EXCEPT !.pc = "resolved",
               !.result = Resolved(Format(Algorithm, NumberToString(call.iterations),
                                          call.salt, ToStringHex(derivedKey)))]

(* hashPassword encoding salt and key as hex.                              *)
HashPasswordDerivedHex(call, derivedKeyBuffer) ==
  [call EXCEPT !.pc = "resolved",
               !.result = Resolved(Format(Algorithm, NumberToString(call.iterations),
                                          ToStringHex(call.drawn),
                                          ToStringHex(derivedKeyBuffer)))]

HashPasswordDerived(call, derivedKeyBuffer) ==
  [call EXCEPT !.pc = "resolved",
               !.result = Resolved(Format(Algorithm, NumberToString(call.iterations),
                                          ToStringBase64(call.drawn),
                                          ToStringBase64(derivedKeyBuffer)))]

(* ---------------------------------------------------------------------- *)
(* verifyPassword                                                          *)
(* ---------------------------------------------------------------------- *)
BufferFrom(s, legacy) == IF legacy THEN BufferFromHex(s) ELSE BufferFromBase64(s)

(* The synchronous part of verifyPassword, up to the call of pbkdf2.       *)
VerifyPasswordStart(plainTextPassword, passwordHash, legacy) ==
  LET fields     == Split(passwordHash, "$")
      algorithm  == Destructure(fields, 1)
      iterations == Destructure(fields, 2)
      salt       == Destructure(fields, 3)
      derivedKey == Destructure(fields, 4)
      call       == [Idle EXCEPT !.op = "verifyPassword",
                                 !.plainTextPassword = plainTextPassword,
                                 !.passwordHash = passwordHash,
                                 !.legacy = legacy]
      parsed     == IF iterations = Undefined THEN NaN ELSE ParseInt(iterations)
  IN  IF algorithm # Algorithm
      THEN [call EXCEPT !.pc = "rejected", !.result = Rejected("Invalid algorithm.")]
      ELSE IF iterations = Undefined \/ salt = Undefined \/ derivedKey = Undefined
      THEN [call EXCEPT !.pc = "rejected",
                        !.result = Rejected("Invalid password format.")]
      ELSE IF parsed.nan
      THEN [call EXCEPT !.pc = "rejected",
                        !.result = Rejected("Invalid password format.")]
      ELSE LET saltBuffer       == BufferFrom(salt, legacy)
               derivedKeyBuffer == BufferFrom(derivedKey, legacy)
               started == [call EXCEPT !.salt = salt,
                                       !.kdfSalt = IF legacy
                                                   THEN Utf8(ToStringHex(saltBuffer))
                                                   ELSE saltBuffer,
                                       !.iterations = parsed.value,
                                       !.keylen = Len(derivedKeyBuffer),
                                       !.derivedKeyBuffer = derivedKeyBuffer,
                                       !.pbkdf2Calls = 1]
           IN  IF Pbkdf2ArgsValid(parsed.value, Len(derivedKeyBuffer))
               THEN [started EXCEPT !.pc = "pbkdf2"]
               ELSE [started EXCEPT !.pc = "rejected",
                                    !.result = Rejected("ERR_OUT_OF_RANGE")]

VerifyPasswordDerived(call, password) ==
  LET equal == TimingSafeEqual(password, call.derivedKeyBuffer)
  IN  [call EXCEPT !.pc = IF equal.kind = "error" THEN "rejected" ELSE "resolved",
                   !.result = equal]

(* A pbkdf2 job that reads its arguments from one module-level place.      *)
Pbkdf2JobShared(i) ==
  Pbkdf2(Utf8(calls[1].plainTextPassword), calls[1].kdfSalt,
         calls[1].iterations, calls[1].keylen)

(* The key the pbkdf2 job of slot i delivers.                              *)
Pbkdf2Job(i) ==
  Pbkdf2(Utf8(calls[i].plainTextPassword), calls[i].kdfSalt,
         calls[i].iterations, calls[i].keylen)

(* ---------------------------------------------------------------------- *)
(* Encoded hashes a caller may hand to verifyPassword                      *)
(* ---------------------------------------------------------------------- *)
Field(h, k) == Split(h, "$")[k]

WithField(h, k, text) ==
  LET f == [Split(h, "$") EXCEPT ![k] = text]
  IN  Format(f[1], f[2], f[3], f[4])

(* The stored hash as written, and the same hash damaged in one place.     *)
Damaged(h) ==
  { h,
    h \o Dollar \o <<"x">>,
    Field(h, 1) \o Dollar \o Field(h, 2) \o Dollar \o Field(h, 3),
    WithField(h, 1, <<"p", "b", "k", "d", "f", "2", "_", "s", "h", "a", "5", "1", "2">>),
    WithField(h, 2, <<>>),
    WithField(h, 2, <<"a", "b", "c">>),
    WithField(h, 2, <<"0">>),
    WithField(h, 2, <<"-", "5">>),
    WithField(h, 2, Field(h, 2) \o <<"x">>),
    WithField(h, 3, <<>>),
    WithField(h, 3, <<"!", "!", "!", "!">>),
    WithField(h, 4, <<>>),
    WithField(h, 4, <<"!", "!", "!", "!">>),
    WithField(h, 4, Field(h, 4) \o <<"!">>) }

MalformedHashes ==
  { <<>>,
    <<"n", "o", "t", "$", "e", "n", "o", "u", "g", "h", "$", "f", "i", "e", "l", "d", "s">>,
    <<"p", "b", "k", "d", "f", "2", "_", "s", "h", "a", "5", "1", "2", "$",
      "1", "5", "0", "0", "0", "0", "$", "A", "A", "=", "=", "$", "A", "A", "=", "=">>,
    <<"p", "b", "k", "d", "f", "2", "_", "s", "h", "a", "2", "5", "6", "$",
      "1", "5", "0", "0", "0", "0", "$", "A", "A", "=", "=", "$">> }

EncodedHashes ==
  MalformedHashes \cup (IF stored.present THEN Damaged(stored.passwordHash) ELSE {})

ConcurrentVerified == {<<"a", "b", "c", "d", "e", "f">>}

ConcurrentHashes ==
  IF stored.present
  THEN {stored.passwordHash}
  ELSE {<<"n", "o", "t", "$", "e", "n", "o", "u", "g", "h", "$", "f", "i", "e", "l", "d", "s">>}

(* ---------------------------------------------------------------------- *)
(* Actions                                                                 *)
(* ---------------------------------------------------------------------- *)
(* A new call takes the first free slot.                                   *)
FreeSlot(i) == calls[i].pc = "idle" /\ \A j \in 1..(i - 1) : calls[j].pc # "idle"

HashPasswordCall(i, passwords) ==
  /\ FreeSlot(i)
  /\ \E plainTextPassword \in passwords, legacy \in BOOLEAN :
       calls' = [calls EXCEPT ![i] = HashPasswordStart(plainTextPassword, legacy)]
  /\ UNCHANGED stored

RandomBytesDone(i) ==
  /\ calls[i].pc = "randomBytes"
  /\ \E bytes \in Salts :
       calls' = [calls EXCEPT ![i] = IF calls[i].legacy
                                     THEN ParsePasswordSalted(calls[i], bytes)
                                     ELSE HashPasswordSalted(calls[i], bytes)]
  /\ UNCHANGED stored

VerifyPasswordCall(i, passwords, hashes) ==
  /\ FreeSlot(i)
  /\ \E plainTextPassword \in passwords, passwordHash \in hashes, legacy \in BOOLEAN :
       calls' = [calls EXCEPT ![i] = VerifyPasswordStart(plainTextPassword, passwordHash,
                                                         legacy)]
  /\ UNCHANGED stored

Pbkdf2Done(i) ==
  /\ calls[i].pc = "pbkdf2"
  /\ calls' = [calls EXCEPT ![i] =
                 IF calls[i].op = "verifyPassword"
                 THEN VerifyPasswordDerived(calls[i], Pbkdf2Job(i))
                 ELSE IF calls[i].legacy
                 THEN ParsePasswordDerived(calls[i], Pbkdf2Job(i))
                 ELSE HashPasswordDerived(calls[i], Pbkdf2Job(i))]
  /\ UNCHANGED stored

(* The caller receives the settled promise; a hash that was produced is    *)
(* persisted as the stored credential.                                     *)
Return(i) ==
  /\ calls[i].pc \in {"resolved", "rejected"}
  /\ calls' = [calls EXCEPT ![i] = Idle]
  /\ stored' = IF calls[i].op = "hashPassword" /\ calls[i].result.kind = "string"
               THEN [present |-> TRUE,
                     plainTextPassword |-> calls[i].plainTextPassword,
                     legacy |-> calls[i].legacy,
                     saltBuffer |-> calls[i].drawn,
                     passwordHash |-> calls[i].result.str]
               ELSE stored

NoneInFlight == \A j \in Slots : calls[j].pc = "idle"

(* One call at a time, every input.                                        *)
Next ==
  \E i \in Slots :
    \/ NoneInFlight /\ HashPasswordCall(i, Passwords)
    \/ NoneInFlight /\ VerifyPasswordCall(i, Passwords, EncodedHashes)
    \/ RandomBytesDone(i)
    \/ Pbkdf2Done(i)
    \/ Return(i)

Spec == Init /\ [][Next]_vars

(* Up to MaxCalls calls in flight, completions in any order.               *)
NextConcurrent ==
  \E i \in Slots :
    \/ HashPasswordCall(i, ConcurrentPasswords)
    \/ VerifyPasswordCall(i, ConcurrentVerified, ConcurrentHashes)
    \/ RandomBytesDone(i)
    \/ Pbkdf2Done(i)
    \/ Return(i)

SpecConcurrent == Init /\ [][NextConcurrent]_vars

(* ---------------------------------------------------------------------- *)
(* Vocabulary of the properties                                            *)
(* ---------------------------------------------------------------------- *)
ValidPassword(p) == Len(Trim(p)) >= 6

Settled(i) == calls[i].pc \in {"resolved", "rejected"}

Hashing(i) == calls[i].op = "hashPassword"

Verifying(i) == calls[i].op = "verifyPassword"

ReturnedTrue(i) == calls[i].pc = "resolved" /\ calls[i].result = ResolvedBool(TRUE)

ReturnedFalse(i) == calls[i].pc = "resolved" /\ calls[i].result = ResolvedBool(FALSE)

Failed(i) == calls[i].pc = "rejected" /\ calls[i].result.kind = "error"

FieldsOf(i) == Split(calls[i].passwordHash, "$")

(* Verification of the stored hash, as written, with the stored password.  *)
VerifiesStored(i) ==
  /\ Verifying(i)
  /\ stored.present
  /\ calls[i].passwordHash = stored.passwordHash

IsPositiveDecimal(s) ==
  /\ Len(s) > 0
  /\ \A k \in 1..Len(s) : s[k] \in {"0", "1", "2", "3", "4", "5", "6", "7", "8", "9"}
  /\ \E k \in 1..Len(s) : s[k] # "0"

IsHexText(s) ==
  /\ Len(s) % 2 = 0
  /\ \A k \in 1..Len(s) : Unhex(s[k]) >= 0

IsBase64Text(s) ==
  /\ Len(s) % 4 = 0
  /\ \A k \in 1..Len(s) :
       \/ s[k] \in DOMAIN Base64Position
       \/ s[k] = "=" /\ k >= Len(s) - 1 /\ \A j \in (k + 1)..Len(s) : s[j] = "="

WellEncoded(s, legacy) == IF legacy THEN IsHexText(s) ELSE IsBase64Text(s)

(* ---------------------------------------------------------------------- *)
(* Properties                                                              *)
(* ---------------------------------------------------------------------- *)

(* C1: round trip.  Verifying, in current mode, a hash that hashPassword   *)
(* produced in current mode, with the password it was produced from, is    *)
(* never rejected and returns true.                                        *)
RoundTrip ==
  \A i \in Slots :
    ( /\ VerifiesStored(i)
      /\ ~stored.legacy
      /\ ~calls[i].legacy
      /\ calls[i].plainTextPassword = stored.plainTextPassword )
    => /\ calls[i].pc \in {"pbkdf2", "resolved"}
       /\ calls[i].pc = "resolved" => calls[i].result = ResolvedBool(TRUE)

RoundTripWitness ==
  \E i \in Slots :
    /\ VerifiesStored(i)
    /\ ~stored.legacy
    /\ ~calls[i].legacy
    /\ calls[i].plainTextPassword = stored.plainTextPassword
    /\ ValidPassword(stored.plainTextPassword)
    /\ ReturnedTrue(i)

(* C2: negative round trip.  Verifying a current-mode hash with another    *)
(* valid password, whose key under the stored salt differs, is not         *)
(* rejected and returns false.                                             *)
NegativeRoundTrip ==
  \A i \in Slots :
    ( /\ VerifiesStored(i)
      /\ ~stored.legacy
      /\ ~calls[i].legacy
      /\ ValidPassword(calls[i].plainTextPassword)
      /\ calls[i].plainTextPassword # stored.plainTextPassword
      /\ Pbkdf2(Utf8(calls[i].plainTextPassword), stored.saltBuffer,
                CurrentIterations, CurrentKeylen)
           # Pbkdf2(Utf8(stored.plainTextPassword), stored.saltBuffer,
                    CurrentIterations, CurrentKeylen) )
    => /\ calls[i].pc \in {"pbkdf2", "resolved"}
       /\ calls[i].pc = "resolved" => calls[i].result = ResolvedBool(FALSE)

NegativeRoundTripWitness ==
  \E i \in Slots :
    /\ VerifiesStored(i)
    /\ ~stored.legacy
    /\ ~calls[i].legacy
    /\ ValidPassword(calls[i].plainTextPassword)
    /\ calls[i].plainTextPassword # stored.plainTextPassword
    /\ Pbkdf2(Utf8(calls[i].plainTextPassword), stored.saltBuffer,
              CurrentIterations, CurrentKeylen)
         # Pbkdf2(Utf8(stored.plainTextPassword), stored.saltBuffer,
                  CurrentIterations, CurrentKeylen)
    /\ ReturnedFalse(i)

(* C3: a plaintext whose trimmed length is below 6 is rejected by          *)
(* hashPassword in both modes, with no random bytes drawn and no           *)
(* derivation started.                                                     *)
ShortPasswordRejected ==
  \A i \in Slots :
    (Hashing(i) /\ ~ValidPassword(calls[i].plainTextPassword))
    => /\ Failed(i)
       /\ calls[i].randomBytesCalls = 0
       /\ calls[i].pbkdf2Calls = 0

ShortPasswordRejectedWitness ==
  \E i \in Slots :
    /\ Hashing(i)
    /\ calls[i].legacy
    /\ Len(calls[i].plainTextPassword) >= 6
    /\ ~ValidPassword(calls[i].plainTextPassword)
    /\ Failed(i)

(* C4: format conformance.  A hash returned in current mode has exactly    *)
(* four fields: the algorithm tag, 150000, the base64 text of the 16 bytes *)
(* drawn and the base64 text of the 32-byte key derived from those bytes   *)
(* with 150000 iterations.  A hash returned in legacy mode has the tag,    *)
(* 100000, the hex text of the 16 bytes drawn and the hex text of the      *)
(* 64-byte key derived from that hex text with 100000 iterations.          *)
CurrentFormat(i) ==
  LET f == Split(calls[i].result.str, "$")
  IN  /\ Len(f) = 4
      /\ f[1] = <<"p", "b", "k", "d", "f", "2", "_", "s", "h", "a", "2", "5", "6">>
      /\ f[2] = <<"1", "5", "0", "0", "0", "0">>
      /\ Len(calls[i].drawn) = 16
      /\ Len(f[3]) = 24
      /\ IsBase64Text(f[3])
      /\ BufferFromBase64(f[3]) = calls[i].drawn
      /\ Len(f[4]) = 44
      /\ IsBase64Text(f[4])
      /\ BufferFromBase64(f[4])
           = Pbkdf2(Utf8(calls[i].plainTextPassword), calls[i].drawn, 150000, 32)

LegacyFormat(i) ==
  LET f == Split(calls[i].result.str, "$")
  IN  /\ Len(f) = 4
      /\ f[1] = <<"p", "b", "k", "d", "f", "2", "_", "s", "h", "a", "2", "5", "6">>
      /\ f[2] = <<"1", "0", "0", "0", "0", "0">>
      /\ Len(calls[i].drawn) = 16
      /\ Len(f[3]) = 32
      /\ IsHexText(f[3])
      /\ BufferFromHex(f[3]) = calls[i].drawn
      /\ Len(f[4]) = 128
      /\ IsHexText(f[4])
      /\ BufferFromHex(f[4])
           = Pbkdf2(Utf8(calls[i].plainTextPassword), Utf8(f[3]), 100000, 64)

WrongShapeRejected ==
  \A i \in Slots :
    (Verifying(i) /\ (Len(FieldsOf(i)) # 4 \/ FieldsOf(i)[1] # Algorithm))
    => Failed(i) /\ calls[i].pbkdf2Calls = 0

(* C6: verifyPassword fails, with no pbkdf2 call, when the iterations      *)
(* field is not a positive base-10 integer.                                *)
BadIterationsRejected ==
  \A i \in Slots :
    (Verifying(i) /\ Len(FieldsOf(i)) >= 2 /\ ~IsPositiveDecimal(FieldsOf(i)[2]))
    => Failed(i) /\ calls[i].pbkdf2Calls = 0

(* C7: verifyPassword never returns a boolean, and in particular never     *)
(* true, when the salt field or the derivedKey field is empty.             *)
EmptyFieldRejected ==
  \A i \in Slots :
    ( /\ Verifying(i)
      /\ Len(FieldsOf(i)) >= 4
      /\ (FieldsOf(i)[3] = <<>> \/ FieldsOf(i)[4] = <<>>) )
    => calls[i].pc # "resolved"

(* C8: verifyPassword never returns a boolean for a four-field hash whose  *)
(* salt or derivedKey field is not valid hex (legacy) or valid base64      *)
(* (current).                                                              *)
UndecodableRejected ==
  \A i \in Slots :
    ( /\ Verifying(i)
      /\ Len(FieldsOf(i)) = 4
      /\ \/ ~WellEncoded(FieldsOf(i)[3], calls[i].legacy)
         \/ ~WellEncoded(FieldsOf(i)[4], calls[i].legacy) )
    => calls[i].pc # "resolved"

(* C9: legacy interop.  A legacy hash verified in legacy mode with the     *)
(* password it was produced from is not rejected and returns true; the     *)
(* same verification in current mode never returns true.                   *)
LegacyInterop ==
  \A i \in Slots :
    ( /\ VerifiesStored(i)
      /\ stored.legacy
      /\ calls[i].plainTextPassword = stored.plainTextPassword )
    => IF calls[i].legacy
       THEN /\ calls[i].pc \in {"pbkdf2", "resolved"}
            /\ calls[i].pc = "resolved" => calls[i].result = ResolvedBool(TRUE)
       ELSE ~ReturnedTrue(i)

LegacyInteropWitness ==
  \E i, j \in Slots :
    /\ VerifiesStored(i)
    /\ VerifiesStored(j)
    /\ stored.legacy
    /\ calls[i].plainTextPassword = stored.plainTextPassword
    /\ calls[j].plainTextPassword = stored.plainTextPassword
    /\ calls[i].legacy
    /\ ReturnedTrue(i)
    /\ ~calls[j].legacy
    /\ Settled(j)

(* C10: calls are independent.  Whatever else is in flight and in whatever *)
(* order completions arrive, a settled call has the outcome it has when    *)
(* run alone with the same arguments and the same bytes drawn; a           *)
(* hashPassword call that passed the length check drew random bytes        *)
(* exactly once, and no other call drew any.                               *)
RunAlone(call) ==
  IF call.op = "hashPassword"
  THEN LET started == HashPasswordStart(call.plainTextPassword, call.legacy)
           salted  == IF call.legacy
                      THEN ParsePasswordSalted(started, call.drawn)
                      ELSE HashPasswordSalted(started, call.drawn)
           key     == Pbkdf2(Utf8(salted.plainTextPassword), salted.kdfSalt,
                             salted.iterations, salted.keylen)
       IN  IF started.pc = "rejected" THEN started
           ELSE IF call.legacy THEN ParsePasswordDerived(salted, key)
           ELSE HashPasswordDerived(salted, key)
  ELSE LET started == VerifyPasswordStart(call.plainTextPassword, call.passwordHash,
                                          call.legacy)
           key     == Pbkdf2(Utf8(started.plainTextPassword), started.kdfSalt,
                             started.iterations, started.keylen)
       IN  IF started.pc = "rejected" THEN started
           ELSE VerifyPasswordDerived(started, key)

CallsIndependent ==
  \A i \in Slots :
    Settled(i)
    => /\ calls[i].result = RunAlone(calls[i]).result
       /\ calls[i].randomBytesCalls
            = IF Hashing(i) /\ ValidPassword(calls[i].plainTextPassword) THEN 1 ELSE 0

CallsIndependentWitness ==
  \E i, j \in Slots :
    /\ Hashing(i)
    /\ Hashing(j)
    /\ calls[i].pc = "resolved"
    /\ calls[j].pc = "pbkdf2"
    /\ calls[i].plainTextPassword = calls[j].plainTextPassword
    /\ calls[i].legacy = calls[j].legacy
    /\ calls[i].drawn # calls[j].drawn
    /\ stored.present

====
